---- MODULE Spec2Model ----
(***************************************************************************)
(* A model of webpack-symmetric: the proxy policy built by                 *)
(* createBackendProxy (src/index.js) and the certificate bootstrap         *)
(* createSelfSignedCert (src/unnamed/part_000, the ./ssl module).          *)
(*                                                                         *)
(* JavaScript strings are sequences of one-character strings, so that      *)
(* split, replace and the regular expressions of the source are computed   *)
(* character by character.                                                 *)
(***************************************************************************)
EXTENDS Integers, Sequences, FiniteSets, TLC

VARIABLES
    given,      \* the options the caller supplied to the last createBackendProxy call
    proxy,      \* the policy that call returned (NoProxy before any, and when it threw)
    routed,     \* the last request handed to bypass, with what bypass returned
    exch,       \* the exchange with the backend that request led to
    jar,        \* the cookies the browser holds
    disk,       \* the files of the storage root
    boot,       \* the last createSelfSignedCert call: the directory before and after, what it ran
    server,     \* the distribution server
    call,       \* the circumstances of the last call: environment, host, what its commands did
    res,        \* the distribution server's answer to the last request it received
    parked      \* the other in-flight connections of the engine: each one's request and exchange

vars == <<given, proxy, routed, exch, jar, disk, boot, server, call, res, parked>>

----------------------------------------------------------------------------
(* Bounds of the model *)

\* longest paths / subpaths list a caller supplies
MaxPaths == 2
\* most path segments of a request URL
MaxSegs == 2
\* most cookies in a request's Cookie header
MaxCookies == 2
\* most Set-Cookie values in a backend's response
MaxSetCookies == 2
\* most pieces (origins, other text) a response body is made of
MaxPieces == 2
\* most chunks a response body arrives in
MaxChunks == 2
\* most additional domains, and most additional addresses, a caller supplies
MaxExtra == 1
\* most connections the engine has in flight at once
MaxFlights == 2

----------------------------------------------------------------------------
(* JavaScript values *)

\* undefined (an array index out of range, a header that is not set)
Undefined == <<"undefined">>
\* the boolean false returned by bypass
JsFalse == <<"false">>
\* no policy built yet
NoProxy == [target |-> Undefined]
\* no request handled yet
NoRequest == [method |-> "none"]

----------------------------------------------------------------------------
(* String primitives *)

\* s.indexOf-style search in an array: the 0-based index of x in arr, or -1
IndexOf(arr, x) ==
    IF \E i \in 1..Len(arr) : arr[i] = x
    THEN (CHOOSE i \in 1..Len(arr) : arr[i] = x /\ \A j \in 1..(i - 1) : arr[j] # x) - 1
    ELSE -1

\* arr[k] with JavaScript's 0-based index: undefined out of range
At(arr, k) == IF k + 1 <= Len(arr) THEN arr[k + 1] ELSE Undefined

RECURSIVE SplitFrom(_, _, _, _)
SplitFrom(s, sep, i, cur) ==
    IF i > Len(s) THEN <<cur>>
    ELSE IF s[i] = sep THEN <<cur>> \o SplitFrom(s, sep, i + 1, <<>>)
    ELSE SplitFrom(s, sep, i + 1, Append(cur, s[i]))

\* s.split(sep) for a one-character separator
Split(s, sep) == SplitFrom(s, sep, 1, <<>>)

\* path.replace(/\//g, '')
StripSlashes(s) == SelectSeq(s, LAMBDA c : c # "/")

\* a faulty variant of Splice, which the property must reject: splice(-1, 1, ...items) deletes the last element
SpliceDeleting(arr, items) ==
    LET start == IF Len(arr) - 1 > 0 THEN Len(arr) - 1 ELSE 0
    IN SubSeq(arr, 1, start) \o items

\* arr.splice(-1, 0, ...items): insert items before the last element
\* (at the front of an empty array)
Splice(arr, items) ==
    LET start == IF Len(arr) - 1 > 0 THEN Len(arr) - 1 ELSE 0
    IN SubSeq(arr, 1, start) \o items \o SubSeq(arr, start + 1, Len(arr))

\* paths.forEach((path, i) => { paths[i] = path.replace(/\//g, "") })
StripEach(arr) == [i \in 1..Len(arr) |-> StripSlashes(arr[i])]

\* the elements of an array, as a set
Elems(arr) == {arr[i] : i \in 1..Len(arr)}

----------------------------------------------------------------------------
(* Constants of src/index.js *)

S_api == <<"a", "p", "i">>
S_login == <<"l", "o", "g", "i", "n">>
S_logout == <<"l", "o", "g", "o", "u", "t">>
S_auth == <<"a", "u", "t", "h">>
S_deauth == <<"d", "e", "a", "u", "t", "h">>
S_setup == <<"s", "e", "t", "u", "p">>
S_callback == <<"c", "a", "l", "l", "b", "a", "c", "k">>
S_static == <<"s", "t", "a", "t", "i", "c">>
S_debug == <<"_", "_", "d", "e", "b", "u", "g", "_", "_">>

STANDARD_PATHS ==
    <<S_api, S_login, S_logout, S_auth, S_deauth, S_setup, S_callback, S_static, S_debug>>
STANDARD_SUBPATHS == <<>>

----------------------------------------------------------------------------
(* createBackendProxy: path normalisation and the bypass predicate *)

\* lines 48-58: strip the slashes of every token, then add the standard paths
NormalizePaths(paths) == Splice(StripEach(paths), STANDARD_PATHS)
NormalizeSubpaths(subpaths) == Splice(StripEach(subpaths), STANDARD_SUBPATHS)

\* bypass(req): false = hand the request to the proxy, req.url = serve it locally
bypass(p, req) ==
    LET parts == Split(req.url, "/")
    IN IF \/ (req.method # "GET" /\ req.method # "HEAD")
          \/ IndexOf(p.paths, At(parts, 1)) # -1
          \/ IndexOf(p.subpaths, At(parts, 2)) # -1
       THEN JsFalse
       ELSE req.url

----------------------------------------------------------------------------
(* Regular expressions of createBackendProxy *)

BACKEND_COOKIE == <<"p", "r", "o", "x", "y", "b", "a", "c", "k", "e", "n", "d">>
S_sessionidEq == <<"s", "e", "s", "s", "i", "o", "n", "i", "d", "=">>
S_secure == <<"s", "e", "c", "u", "r", "e">>
S_expires == <<";", " ", "e", "x", "p", "i", "r", "e", "s", "=">>
S_pathRoot == <<";", " ", "p", "a", "t", "h", "=", "/">>
\* the already-expired session cookie of line 104
EXPIRED_SESSION == <<"s", "e", "s", "s", "i", "o", "n", "i", "d", "=", ";", " ", "e", "x", "p", "i", "r", "e", "s", "=", "T", "h", "u", ",", " ", "0", "1", " ", "J", "a", "n", " ", "1", "9", "7", "0", " ", "0", "0", ":", "0", "0", ":", "0", "1", " ", "G", "M", "T", ";", " ", "p", "a", "t", "h", "=", "/">>
\* expires.toUTCString() of a date 365 days from now: one opaque token, no regular
\* expression of the source matches inside a date
IN_365_DAYS == <<"<now+365d>">>

\* \w
WordChars == {"a", "b", "c", "d", "e", "f", "g", "h", "i", "j", "k", "l", "m", "n", "o", "p", "q", "r", "s", "t", "u", "v", "w", "x", "y", "z", "A", "B", "C", "D", "E", "F", "G", "H", "I", "J", "K", "L", "M", "N", "O", "P", "Q", "R", "S", "T", "U", "V", "W", "X", "Y", "Z", "0", "1", "2", "3", "4", "5", "6", "7", "8", "9", "_"}
\* \s
SpaceChars == {" ", "\t", "\n", "\r"}

\* one pattern character against one input character: an unescaped dot of the
\* pattern source matches any character but a line terminator
MatchChar(pc, c) == IF pc = "." THEN c \notin {"\n", "\r"} ELSE pc = c

\* the pattern pat (a sequence of pattern characters) matches s at position i
MatchesAt(pat, s, i) ==
    /\ i + Len(pat) - 1 <= Len(s)
    /\ \A j \in 1..Len(pat) : MatchChar(pat[j], s[i + j - 1])

\* re.test(s) for an unanchored pattern of plain characters and dots
ReTest(pat, s) == \E i \in 1..(Len(s) + 1) : MatchesAt(pat, s, i)

\* line 45: new RegExp(`${BACKEND_COOKIE}=${backend};?`): the optional trailing
\* semicolon never decides a test, the backend is interpolated unescaped
backendCookieRe(backend) == BACKEND_COOKIE \o <<"=">> \o backend

\* the start of the leftmost match of /sessionid=\w+;?/ in s, 0 when there is none
SessionMatchStart(s) ==
    LET hits == {i \in 1..Len(s) : /\ MatchesAt(S_sessionidEq, s, i)
                                   /\ i + 10 <= Len(s)
                                   /\ s[i + 10] \in WordChars}
    IN IF hits = {} THEN 0 ELSE CHOOSE i \in hits : \A j \in hits : i <= j

\* the end of that match: \w+ is greedy, then one optional semicolon
SessionMatchEnd(s, start) ==
    LET lastWord == CHOOSE e \in (start + 10)..Len(s) :
                        /\ \A k \in (start + 10)..e : s[k] \in WordChars
                        /\ (e = Len(s) \/ s[e + 1] \notin WordChars)
    IN IF lastWord < Len(s) /\ s[lastWord + 1] = ";" THEN lastWord + 1 ELSE lastWord

\* line 46: sessionCookieRe.test(s)
sessionCookieReTest(s) == SessionMatchStart(s) # 0

\* line 90: cookies.replace(sessionCookieRe, ''): the first match only
RemoveSession(s) ==
    LET start == SessionMatchStart(s)
    IN IF start = 0 THEN s
       ELSE SubSeq(s, 1, start - 1) \o SubSeq(s, SessionMatchEnd(s, start) + 1, Len(s))

\* line 120: cookie.replace(/secure\s*$/, ''): lower-case secure, then white space
\* up to the end of the value
StripSecure(s) ==
    LET hits == {i \in 1..Len(s) : /\ MatchesAt(S_secure, s, i)
                                   /\ \A k \in (i + 6)..Len(s) : s[k] \in SpaceChars}
    IN IF hits = {} THEN s
       ELSE SubSeq(s, 1, (CHOOSE i \in hits : \A j \in hits : i <= j) - 1)

----------------------------------------------------------------------------
(* Header values: undefined, one string, or an array of strings *)

NoHeader == [kind |-> "undefined"]
OneValue(s) == [kind |-> "string", v |-> s]
ManyValues(a) == [kind |-> "array", v |-> a]

\* a JavaScript string or undefined used as a condition
TruthyString(s) == s # Undefined /\ s # <<>>

\* a header value used as a condition: undefined and '' are falsy, every array is truthy
TruthyHeader(h) == h.kind = "array" \/ (h.kind = "string" /\ h.v # <<>>)

----------------------------------------------------------------------------
(* The request and response hooks of the policy *)

\* lines 87-92: the cookie header the forwarded request carries after onProxyReq,
\* from the one it carried before
onProxyReq(p, cookies) ==
    IF TruthyString(cookies) /\ ~ReTest(p.backendCookieRe, cookies)
    THEN RemoveSession(cookies)
    ELSE cookies

\* line 102
MarkerSetCookie(backend) ==
    BACKEND_COOKIE \o <<"=">> \o backend \o S_expires \o IN_365_DAYS \o S_pathRoot

\* lines 96-108: proxyRes.headers['set-cookie'] after the base onProxyRes, from the
\* incoming request's cookie header and the value before
onProxyRes(p, reqCookie, setCookie) ==
    IF ~ReTest(p.backendCookieRe, IF TruthyString(reqCookie) THEN reqCookie ELSE <<>>)
    THEN LET resCookies == IF ~TruthyHeader(setCookie) THEN <<>>
                           ELSE IF setCookie.kind # "array" THEN <<setCookie.v>>
                           ELSE setCookie.v
             marked == Append(resCookies, MarkerSetCookie(p.target))
         IN ManyValues(IF \A i \in 1..Len(marked) : ~sessionCookieReTest(marked[i])
                       THEN Append(marked, EXPIRED_SESSION)
                       ELSE marked)
    ELSE setCookie

\* lines 117-122: the Secure strip of the insecure wrapper. Indexing a string
\* primitive reads one character and assigning to the index changes nothing
\* (the module is not in strict mode), so only an array is rewritten
insecureStrip(setCookie) ==
    IF TruthyHeader(setCookie) /\ setCookie.kind = "array"
    THEN ManyValues([i \in 1..Len(setCookie.v) |-> StripSecure(setCookie.v[i])])
    ELSE setCookie

----------------------------------------------------------------------------
(* createSelfSignedCert (the ./ssl module): files and external commands *)

S_localhost == <<"l", "o", "c", "a", "l", "h", "o", "s", "t">>
S_loopback == <<"1", "2", "7", ".", "0", ".", "0", ".", "1">>

\* an execSync call that throws (the tool is missing or exits with an error)
Throws == <<"throws">>
\* a file that does not exist
Missing == <<"missing">>

\* The storage root. A key file holds the identity of the key pair generated
\* into it (0: no such file); a certificate holds the key it certifies and the
\* CA key that signed it.
\*   caKey, caCert   symmetric_ca.key / symmetric_ca.crt: the CA generation
\*   caExt           symmetric_ca.ext exists
\*   key, csr        symmetric.key / symmetric.csr: the leaf key generation
\*   cert            symmetric.crt: [key, ca, san], key = 0 when it does not exist
\*   ext             symmetric.ext: the SAN document, or Missing
NoCert == [key |-> 0, ca |-> 0, san |-> Missing]
EmptyDir ==
    [caKey |-> 0, caCert |-> 0, caExt |-> FALSE, key |-> 0, csr |-> 0,
     cert |-> NoCert, ext |-> Missing]

\* fs.existsSync
Exists(fs, f) ==
    CASE f = "caKey" -> fs.caKey # 0
      [] f = "caCert" -> fs.caCert # 0
      [] f = "caExt" -> fs.caExt
      [] f = "key" -> fs.key # 0
      [] f = "csr" -> fs.csr # 0
      [] f = "cert" -> fs.cert.key # 0
      [] f = "ext" -> fs.ext # Missing

\* the identity of a newly generated key pair: one no file of the directory holds
FreshId(used) == CHOOSE n \in 1..(Cardinality(used) + 1) : n \notin used

RECURSIVE TrimLeft(_)
TrimLeft(s) == IF s # <<>> /\ Head(s) \in SpaceChars THEN TrimLeft(Tail(s)) ELSE s
RECURSIVE TrimRight(_)
TrimRight(s) ==
    IF s # <<>> /\ s[Len(s)] \in SpaceChars THEN TrimRight(SubSeq(s, 1, Len(s) - 1)) ELSE s
\* s.trim()
Trim(s) == TrimRight(TrimLeft(s))

\* lines 39-41 and 42-44: addDomain / addIP, push unless already present
AddUnique(list, x) == IF IndexOf(list, x) = -1 THEN Append(list, x) ELSE list

RECURSIVE AddAll(_, _)
\* xs.forEach(addDomain) / xs.forEach(addIP)
AddAll(list, xs) == IF xs = <<>> THEN list ELSE AddAll(AddUnique(list, Head(xs)), Tail(xs))

\* a faulty variant of ExtData, which the property must reject: the lines numbered from 0
ExtDataFromZero(altDomainNames, altIPs) ==
    <<"subjectAltName = @alt_names", "[ alt_names ]">>
        \o [i \in 1..Len(altDomainNames) |-> <<"DNS", i - 1, altDomainNames[i]>>]
        \o [i \in 1..Len(altIPs) |-> <<"IP", i - 1, altIPs[i]>>]

\* lines 126-132: the SAN document, line by line; the line `DNS.<n> = <name>` is
\* the triple <<"DNS", n, name>>
ExtData(altDomainNames, altIPs) ==
    <<"subjectAltName = @alt_names", "[ alt_names ]">>
        \o [i \in 1..Len(altDomainNames) |-> <<"DNS", i, altDomainNames[i]>>]
        \o [i \in 1..Len(altIPs) |-> <<"IP", i, altIPs[i]>>]

\* lines 25-51: the call starts: the seeded SAN lists with the caller's additions,
\* and the directory created if need be
StartCall(fs, options) ==
    [fs |-> fs,
     before |-> fs,
     status |-> "running",
     ops |-> <<"mkdir">>,
     altDomainNames |-> AddAll(<<S_localhost>>, options.additionalDomains),
     altIPs |-> AddAll(<<S_loopback>>, options.additionalIPs)]

\* a faulty variant of NeedsCA, which the property must reject: a CA made on every call
NeedsCAAlways(fs) == Exists(fs, "caKey") \/ ~Exists(fs, "caKey")

\* a faulty variant of NeedsCA, which the property must reject: regenerate only when both files are missing
NeedsCABoth(fs) == ~Exists(fs, "caKey") /\ ~Exists(fs, "caCert")

\* line 53
NeedsCA(fs) == ~Exists(fs, "caKey") \/ ~Exists(fs, "caCert")

\* a faulty variant of CaStage, which the property must reject: a failed registration
\* ends the call
CaStageTrustFatal(c, out) ==
    IF ~(~Exists(c.fs, "caKey") \/ ~Exists(c.fs, "caCert")) THEN c
    ELSE LET fresh == FreshId({c.fs.caKey, c.fs.caCert, c.fs.cert.ca})
             wrote == [c EXCEPT !.fs.caExt = TRUE,
                                !.ops = @ \o <<"write caExt", "openssl CA">>]
         IN CASE out.ca = "fails" -> [wrote EXCEPT !.status = "error"]
              [] out.ca = "keyonly" ->
                    [wrote EXCEPT !.status = "error", !.fs.caKey = fresh]
              [] out.ca = "ok" ->
                    IF out.trust = "ok"
                    THEN [wrote EXCEPT !.fs.caKey = fresh, !.fs.caCert = fresh,
                                       !.ops = Append(@, "security")]
                    ELSE [wrote EXCEPT !.fs.caKey = fresh, !.fs.caCert = fresh,
                                       !.status = "error",
                                       !.ops = Append(@, "security")]

\* lines 53-86: the CA, created when its key or its certificate is missing, then
\* registered with the keychain. out.ca is what the openssl command does: "ok",
\* "fails" (nothing written) or "keyonly" (it fails after writing the key);
\* out.trust is what the security command does: "ok" or "fails"
CaStage(c, out) ==
    IF ~NeedsCA(c.fs) THEN c
    ELSE LET fresh == FreshId({c.fs.caKey, c.fs.caCert, c.fs.cert.ca})
             wrote == [c EXCEPT !.fs.caExt = TRUE,
                                !.ops = @ \o <<"write caExt", "openssl CA">>]
         IN CASE out.ca = "fails" -> [wrote EXCEPT !.status = "error"]
              [] out.ca = "keyonly" ->
                    [wrote EXCEPT !.status = "error", !.fs.caKey = fresh]
              [] out.ca = "ok" ->
                    [wrote EXCEPT !.fs.caKey = fresh, !.fs.caCert = fresh,
                                  !.ops = @ \o (IF out.trust = "ok"
                                                THEN <<"security">>
                                                ELSE <<"security", "log notice">>)]

\* lines 89-96: uname -n, pushed without the duplicate check (this stage and the
\* next ones run unless an earlier command threw)
UnameStage(c, host) ==
    IF c.status # "running" THEN c
    ELSE IF host.uname = Throws THEN [c EXCEPT !.ops = Append(@, "uname")]
    ELSE [c EXCEPT !.ops = Append(@, "uname"),
                   !.altDomainNames = Append(@, Trim(host.uname))]

\* lines 97-114: the LAN addresses, split on a space, or on a newline on darwin
LanStage(c, host) ==
    IF c.status # "running" THEN c
    ELSE IF host.lan = Throws THEN [c EXCEPT !.ops = Append(@, "lan")]
    ELSE [c EXCEPT !.ops = Append(@, "lan"),
                   !.altIPs = AddAll(@, Split(Trim(host.lan),
                                              IF host.platform # "darwin" THEN " " ELSE "\n"))]

\* lines 115-123: the public address
DigStage(c, host) ==
    IF c.status # "running" THEN c
    ELSE IF host.dig = Throws THEN [c EXCEPT !.ops = Append(@, "dig")]
    ELSE [c EXCEPT !.ops = Append(@, "dig"), !.altIPs = AddUnique(@, Trim(host.dig))]

\* a faulty variant of ReusesLeaf, which the property must reject: the stored
\* document is not compared
ReusesLeafAnyDoc(fs, extData) ==
    /\ Exists(fs, "ext")
    /\ Exists(fs, "key")
    /\ Exists(fs, "cert")

\* lines 133-138
ReusesLeaf(fs, extData) ==
    /\ Exists(fs, "ext")
    /\ fs.ext = extData
    /\ Exists(fs, "key")
    /\ Exists(fs, "cert")

\* lines 125-150: the leaf, reused or issued. out.req is what the request command
\* does ("ok", "fails", or "keyonly": it fails after writing the key), out.sign
\* what the signing command does ("ok" or "fails"); signing needs the CA
\* certificate and a CA key that belongs to it
LeafStage(c, out) ==
    LET extData == ExtData(c.altDomainNames, c.altIPs)
    IN IF c.status # "running" THEN c
       ELSE IF ReusesLeaf(c.fs, extData) THEN [c EXCEPT !.ops = Append(@, "log reuse")]
       ELSE LET fresh == FreshId({c.fs.key, c.fs.csr, c.fs.cert.key})
                wrote == [c EXCEPT !.fs.ext = extData,
                                   !.ops = @ \o <<"write ext", "openssl req">>]
                canSign == /\ out.sign = "ok"
                           /\ Exists(c.fs, "caCert")
                           /\ c.fs.caKey = c.fs.caCert
            IN CASE out.req = "fails" -> [wrote EXCEPT !.status = "error"]
                 [] out.req = "keyonly" ->
                       [wrote EXCEPT !.status = "error", !.fs.key = fresh]
                 [] out.req = "ok" ->
                       IF canSign
                       THEN [wrote EXCEPT !.fs.key = fresh, !.fs.csr = fresh,
                                          !.fs.cert = [key |-> fresh, ca |-> c.fs.caKey,
                                                       san |-> extData],
                                          !.ops = Append(@, "openssl sign")]
                       ELSE [wrote EXCEPT !.fs.key = fresh, !.fs.csr = fresh,
                                          !.status = "error",
                                          !.ops = Append(@, "openssl sign")]

\* a faulty variant of createSelfSignedCert, which the property must reject: a
\* failed command does not end the call
createSelfSignedCertSwallowing(fs, options, host, out) ==
    [LeafStage(DigStage(LanStage(UnameStage(CaStage(StartCall(fs, options), out), host),
                                 host), host), out)
        EXCEPT !.status = "returned"]

\* lines 25-158: one call, from the directory fs: the directory it leaves, the
\* commands it ran and whether it returned the four paths or threw
createSelfSignedCert(fs, options, host, out) ==
    LET c0 == StartCall(fs, options)
        c1 == CaStage(c0, out)
        c2 == UnameStage(c1, host)
        c3 == LanStage(c2, host)
        c4 == DigStage(c3, host)
        c5 == LeafStage(c4, out)
    IN [c5 EXCEPT !.status = IF @ = "running" THEN "returned" ELSE @]

----------------------------------------------------------------------------
(* The body rewrite of the originRewrites wrapper *)

S_text_html == <<"t", "e", "x", "t", "/", "h", "t", "m", "l">>
S_gzip == <<"g", "z", "i", "p">>

UpperCase == <<"A", "B", "C", "D", "E", "F", "G", "H", "I", "J", "K", "L", "M", "N", "O", "P", "Q", "R", "S", "T", "U", "V", "W", "X", "Y", "Z">>
LowerCase == <<"a", "b", "c", "d", "e", "f", "g", "h", "i", "j", "k", "l", "m", "n", "o", "p", "q", "r", "s", "t", "u", "v", "w", "x", "y", "z">>

\* the case folding of the i flag
Fold(c) ==
    IF \E i \in 1..26 : UpperCase[i] = c
    THEN LowerCase[CHOOSE i \in 1..26 : UpperCase[i] = c]
    ELSE c

\* one pattern character against one input character under the i flag
MatchCharI(pc, c) == IF pc = "." THEN c \notin {"\n", "\r"} ELSE Fold(pc) = Fold(c)

\* the alternative alt matches s at position i, ignoring case
MatchesAtI(alt, s, i) ==
    /\ i + Len(alt) - 1 <= Len(s)
    /\ \A j \in 1..Len(alt) : MatchCharI(alt[j], s[i + j - 1])

\* the alternative the alternation takes at position i: the first in the order
\* of the array that matches there (0: none does)
FirstAlternative(alts, s, i) ==
    IF \E k \in 1..Len(alts) : MatchesAtI(alts[k], s, i)
    THEN CHOOSE k \in 1..Len(alts) :
            /\ MatchesAtI(alts[k], s, i)
            /\ \A j \in 1..(k - 1) : ~MatchesAtI(alts[j], s, i)
    ELSE 0

RECURSIVE ReplaceAllFrom(_, _, _)
ReplaceAllFrom(alts, s, i) ==
    IF i > Len(s) THEN <<>>
    ELSE LET k == FirstAlternative(alts, s, i)
         IN IF k # 0 /\ Len(alts[k]) > 0
            THEN ReplaceAllFrom(alts, s, i + Len(alts[k]))
            ELSE <<s[i]>> \o ReplaceAllFrom(alts, s, i + 1)

\* lines 148 and 168: body.replace(new RegExp(originRewrites.join('|'), 'ig'), ''),
\* one pass from left to right over the origins as written (unescaped)
ReplaceOrigins(alts, s) == ReplaceAllFrom(alts, s, 1)

\* the first two bytes of a gzip stream
GzipMagic == "<1f8b>"

RECURSIVE Reverse(_)
Reverse(s) == IF s = <<>> THEN <<>> ELSE Append(Reverse(Tail(s)), Head(s))

\* what the upstream sends for the text s under content-encoding gzip: bytes that
\* are not the text (here the magic number, then the text backwards)
Gzip(s) == <<GzipMagic>> \o Reverse(s)

\* line 166: zlib.gunzipSync(body): the text, or an exception when the bytes are
\* no gzip stream
GunzipSync(b) == IF b # <<>> /\ Head(b) = GzipMagic THEN Reverse(Tail(b)) ELSE Throws

\* a faulty variant of IsHtml, which the property must reject: every response that declares a content type is rewritten
IsHtmlAnyType(contentType) == TruthyString(contentType)

\* lines 153-154: the response is HTML
IsHtml(contentType) ==
    /\ TruthyString(contentType)
    /\ \E i \in 1..Len(contentType) : MatchesAt(S_text_html, contentType, i)

\* lines 164-171: the body handed to res.end by the 'end' handler, from the
\* accumulated bytes and the content-encoding header of the client response
\* (Throws: gunzipSync threw and nothing is ended)
EndBody(alts, contentEncoding, body) ==
    LET decoded == IF contentEncoding # Undefined /\ contentEncoding = S_gzip
                   THEN GunzipSync(body)
                   ELSE body
    IN IF decoded = Throws THEN Throws ELSE ReplaceOrigins(alts, decoded)

----------------------------------------------------------------------------
(* createBackendProxy *)

NoOptions == [backend |-> Undefined]
NoSsl == [key |-> 0, cert |-> NoCert]
NoBoot ==
    [fs |-> EmptyDir, before |-> EmptyDir, status |-> "none", ops |-> <<>>,
     altDomainNames |-> <<>>, altIPs |-> <<>>]
\* what the backend answers: its Set-Cookie header, its content-type and
\* content-encoding, the text it serves and the chunks that text arrives in
NoUpstream ==
    [setCookie |-> NoHeader, contentType |-> Undefined, contentEncoding |-> Undefined,
     text |-> <<>>, chunks |-> <<>>]
Idle ==
    [phase |-> "idle", fwdCookie |-> Undefined, upstream |-> NoUpstream,
     stripped |-> NoHeader, setCookie |-> NoHeader, stages |-> <<>>,
     pipe |-> "engine", handlers |-> FALSE, contentEncoding |-> Undefined,
     buf |-> <<>>, pending |-> <<>>, emitted |-> <<>>, ends |-> 0, threw |-> FALSE,
     stored |-> FALSE, contentLength |-> NoHeader]

\* a faulty variant of ProtocolRewrite, which the property must reject: the else branch taken whatever insecure is
ProtocolRewriteAlwaysHttps(insecure) == "https"

\* lines 111-113 and 125-127
ProtocolRewrite(insecure) == IF insecure THEN "http" ELSE "https"

\* a faulty variant of WantsCert, which the property must reject: a plain build
\* asks for the certificate too
WantsCertAlways(options, env) == options.generateCert \/ ~options.generateCert

\* lines 129-133: the certificate is wanted (reached only when insecure is not set)
WantsCert(options, env) == options.generateCert \/ env.GENERATE_CERT \/ env.devServer

\* lines 42-60 and 111-177: the policy object, given the options and the TLS
\* material read from the files (NoSsl: no ssl field)
Policy(options, ssl) ==
    [target |-> options.backend,
     referer |-> options.backend,
     paths |-> NormalizePaths(options.paths),
     subpaths |-> NormalizeSubpaths(options.subpaths),
     backendCookieRe |-> backendCookieRe(options.backend),
     protocolRewrite |-> ProtocolRewrite(options.insecure),
     insecure |-> options.insecure,
     ssl |-> ssl,
     originRewrites |-> options.originRewrites]

\* createBackendProxy(options) in the environment env, on a host whose probes
\* answer host and whose openssl / security commands do what out says
CreateBackendProxy(options, env, host, out) ==
    /\ given' = options
    /\ routed' = NoRequest
    /\ exch' = Idle
    /\ UNCHANGED <<jar, res, parked>>
    /\ IF ~options.insecure /\ WantsCert(options, env)
       THEN LET r == createSelfSignedCert(disk, options.ssl, host, out)
                serves == r.status = "returned" /\ (options.certServer \/ env.CERT_SERVER)
            IN /\ disk' = r.fs
               /\ boot' = r
               /\ call' = [by |-> "createBackendProxy", options |-> options.ssl,
                           env |-> env, host |-> host, out |-> out,
                           booted |-> TRUE, served |-> serves]
               /\ IF r.status = "returned"
                  THEN /\ proxy' = Policy(options, [key |-> r.fs.key, cert |-> r.fs.cert])
                       /\ server' = IF serves
                                    THEN [listening |-> TRUE, caCert |-> r.fs.caCert]
                                    ELSE server
                  ELSE /\ proxy' = NoProxy
                       /\ server' = server
       ELSE /\ proxy' = Policy(options, NoSsl)
            /\ call' = [by |-> "createBackendProxy", options |-> options.ssl,
                        env |-> env, host |-> host, out |-> out,
                        booted |-> FALSE, served |-> FALSE]
            /\ UNCHANGED <<disk, boot, server>>

\* the engine receives a request and asks bypass what to do with it
Request(method, url, cookie) ==
    /\ proxy # NoProxy
    /\ routed' = [method |-> method, url |-> url, cookie |-> cookie,
                  result |-> bypass(proxy, [method |-> method, url |-> url])]
    /\ exch' = Idle
    /\ UNCHANGED <<given, proxy, jar, disk, boot, server, call, res, parked>>

\* the engine forwards a request that bypass did not keep: the outgoing request
\* starts with the incoming cookie header, then onProxyReq runs
ProxyReq ==
    /\ routed # NoRequest
    /\ routed.result = JsFalse
    /\ exch.phase = "idle"
    /\ exch' = [Idle EXCEPT !.phase = "forwarded",
                            !.fwdCookie = onProxyReq(proxy, routed.cookie)]
    /\ UNCHANGED <<given, proxy, routed, jar, disk, boot, server, call, res, parked>>

\* a faulty variant of ResponseHooks, which the property must reject: the
\* originRewrites wrapper replaces the hook it found instead of calling it
ResponseHooksRewriteOnly(p, reqCookie, up) ==
    LET stripped == IF p.insecure THEN insecureStrip(up.setCookie) ELSE up.setCookie
        rewrites == p.originRewrites # <<>> /\ IsHtml(up.contentType)
    IN IF p.originRewrites # <<>>
       THEN [stripped |-> up.setCookie, setCookie |-> up.setCookie, stages |-> <<"rewrite">>,
             pipe |-> IF rewrites THEN "noop" ELSE "engine", handlers |-> rewrites]
       ELSE [stripped |-> stripped,
             setCookie |-> onProxyRes(p, reqCookie, stripped),
             stages |-> (IF p.insecure THEN <<"strip">> ELSE <<>>) \o <<"session">>,
             pipe |-> "engine", handlers |-> FALSE]

\* lines 96-124 and 147-175: proxy.onProxyRes as createBackendProxy leaves it: the
\* insecure wrapper strips and then calls the base hook; the originRewrites
\* wrapper calls what it wraps and then, for an HTML response, replaces pipe and
\* registers its data and end handlers
ResponseHooks(p, reqCookie, up) ==
    LET stripped == IF p.insecure THEN insecureStrip(up.setCookie) ELSE up.setCookie
        rewrites == p.originRewrites # <<>> /\ IsHtml(up.contentType)
    IN [stripped |-> stripped,
        setCookie |-> onProxyRes(p, reqCookie, stripped),
        stages |-> (IF p.insecure THEN <<"strip">> ELSE <<>>) \o <<"session">>
                       \o (IF p.originRewrites # <<>> THEN <<"rewrite">> ELSE <<>>),
        pipe |-> IF rewrites THEN "noop" ELSE "engine",
        handlers |-> rewrites]

\* the Content-Length header of the backend's answer (none when the answer is
\* chunked), which the engine copies to the client response with the other
\* headers; nothing in lines 147-175 sets or removes it afterwards
ContentLengthOf(up) ==
    IF "contentLength" \in DOMAIN up THEN up.contentLength ELSE NoHeader

\* the backend answers: the engine calls proxy.onProxyRes, copies the response
\* headers to the client response and calls proxyRes.pipe
ProxyRes(up) ==
    /\ exch.phase = "forwarded"
    /\ LET h == ResponseHooks(proxy, routed.cookie, up)
       IN exch' = [exch EXCEPT !.phase = "streaming",
                               !.upstream = up,
                               !.stripped = h.stripped,
                               !.setCookie = h.setCookie,
                               !.stages = h.stages,
                               !.pipe = h.pipe,
                               !.handlers = h.handlers,
                               !.contentEncoding = up.contentEncoding,
                               !.contentLength = ContentLengthOf(up),
                               !.pending = up.chunks]
    /\ UNCHANGED <<given, proxy, routed, jar, disk, boot, server, call, res, parked>>

\* a chunk arrives from the backend: lines 161-163 when the handlers are
\* registered, the engine's pipe when it was not replaced
Data ==
    /\ exch.phase = "streaming"
    /\ exch.pending # <<>>
    /\ exch' = [exch EXCEPT !.pending = Tail(@),
                            !.buf = IF exch.handlers THEN @ \o Head(exch.pending) ELSE @,
                            !.emitted = IF exch.pipe = "engine"
                                        THEN @ \o Head(exch.pending) ELSE @]
    /\ UNCHANGED <<given, proxy, routed, jar, disk, boot, server, call, res, parked>>

\* the backend's stream ends: lines 164-172 when the handlers are registered
\* (gunzipSync may throw, and then nothing more is run), the engine's pipe ends
\* the client response when it was not replaced
End ==
    /\ exch.phase = "streaming"
    /\ exch.pending = <<>>
    /\ LET body == EndBody(proxy.originRewrites, exch.contentEncoding, exch.buf)
       IN exch' =
            IF exch.handlers
            THEN IF body = Throws
                 THEN [exch EXCEPT !.phase = "done", !.threw = TRUE]
                 ELSE [exch EXCEPT !.phase = "done",
                                   !.buf = body,
                                   !.contentEncoding = Undefined,
                                   !.emitted = @ \o body,
                                   !.ends = @ + 1]
            ELSE [exch EXCEPT !.phase = "done", !.ends = @ + 1]
    /\ UNCHANGED <<given, proxy, routed, jar, disk, boot, server, call, res, parked>>

----------------------------------------------------------------------------
(* The state before anything is built *)

\* the browser holds no cookie
EmptyJar == <<>>
ServerOff == [listening |-> FALSE, caCert |-> 0]
\* no call was made yet, and the distribution server has answered nothing
NoCall == [by |-> "none"]
NoResponse == [url |-> Undefined, written |-> <<>>, threw |-> FALSE]
\* no other connection has a request in flight
NoFlights == [k \in 1..(MaxFlights - 1) |-> [routed |-> NoRequest, exch |-> Idle]]

Init ==
    /\ given = NoOptions
    /\ proxy = NoProxy
    /\ routed = NoRequest
    /\ exch = Idle
    /\ jar = EmptyJar
    /\ disk = EmptyDir
    /\ boot = NoBoot
    /\ server = ServerOff
    /\ call = NoCall
    /\ res = NoResponse
    /\ parked = NoFlights

\* all sequences over S of length at most n
SeqsUpTo(S, n) == UNION {[1..k -> S] : k \in 0..n}

RECURSIVE Concat(_)
\* the concatenation of a sequence of strings
Concat(ss) == IF ss = <<>> THEN <<>> ELSE Head(ss) \o Concat(Tail(ss))

\* webpack-dev-server without any variable set, and a plain webpack build
DevServerEnv == [GENERATE_CERT |-> FALSE, CERT_SERVER |-> FALSE, devServer |-> TRUE]
BuildEnv == [GENERATE_CERT |-> FALSE, CERT_SERVER |-> FALSE, devServer |-> FALSE]

\* a host whose probes all fail, and commands that all succeed
SilentHost == [platform |-> "linux", uname |-> Throws, lan |-> Throws, dig |-> Throws]
AllOk == [ca |-> "ok", trust |-> "ok", req |-> "ok", sign |-> "ok"]
NoSslOptions == [additionalDomains |-> <<>>, additionalIPs |-> <<>>]

O_b1 == <<"h", "t", "t", "p", ":", "/", "/", "b", "1">>
O_b10 == <<"h", "t", "t", "p", ":", "/", "/", "b", "1", "0">>
O_c2 == <<"h", "t", "t", "p", ":", "/", "/", "c", "2">>

----------------------------------------------------------------------------
(* Routing: the path lists and the bypass predicate *)

\* the tokens a caller writes in options.paths and options.subpaths
PathTokens == {<<"/", "x", "/">>, <<"y">>}
SubpathTokens == {<<"/", "u">>}

RoutingOptions ==
    {[backend |-> O_b1, paths |-> ps, subpaths |-> sps, insecure |-> TRUE,
      generateCert |-> FALSE, certServer |-> FALSE, originRewrites |-> <<>>,
      ssl |-> NoSslOptions] :
        ps \in SeqsUpTo(PathTokens, MaxPaths), sps \in SeqsUpTo(SubpathTokens, MaxPaths)}

\* request URLs: one to MaxSegs segments, with or without a query string
Segments == {S_api, <<"x">>, <<"u">>}
Queries == {<<>>, <<"?", "q">>}
Url(segs, query) == Concat([i \in 1..Len(segs) |-> <<"/">> \o segs[i]]) \o query
Urls == {Url(segs, q) : segs \in SeqsUpTo(Segments, MaxSegs) \ {<<>>}, q \in Queries}
Methods == {"GET", "HEAD", "POST"}

NextRouting ==
    \/ \E options \in RoutingOptions :
            CreateBackendProxy(options, DevServerEnv, SilentHost, AllOk)
    \/ \E method \in Methods, url \in Urls : Request(method, url, Undefined)

SpecRouting == Init /\ [][NextRouting]_vars

\* the path of a URL: what comes before the query string
PathOf(url) ==
    IF \E i \in 1..Len(url) : url[i] = "?"
    THEN SubSeq(url, 1, (CHOOSE i \in 1..Len(url) :
                            url[i] = "?" /\ \A j \in 1..(i - 1) : url[j] # "?") - 1)
    ELSE url

\* the k-th segment of the path of a URL, Undefined when it has fewer
PathSegment(url, k) == At(Split(PathOf(url), "/"), k)

\* C1: bypass answers `do not bypass` (false) exactly when the method is neither
\* GET nor HEAD, or the first path segment is a configured path, or the second
\* path segment is a configured subpath; in every other case it answers the
\* request URL unchanged.
C1_BypassDecision ==
    routed # NoRequest =>
        /\ (routed.result = JsFalse) <=>
              \/ routed.method \notin {"GET", "HEAD"}
              \/ PathSegment(routed.url, 1) \in Elems(proxy.paths)
              \/ PathSegment(routed.url, 2) \in Elems(proxy.subpaths)
        /\ (routed.result # JsFalse => routed.result = routed.url)

RECURSIVE WithoutSlashes(_)
\* a token with every slash removed
WithoutSlashes(s) ==
    IF s = <<>> THEN <<>>
    ELSE IF Head(s) = "/" THEN WithoutSlashes(Tail(s))
    ELSE <<Head(s)>> \o WithoutSlashes(Tail(s))

\* C2: after createBackendProxy returns, the path set bypass uses is the caller's
\* paths with every slash removed together with the nine standard paths, and the
\* subpath set is the caller's subpaths with every slash removed.
C2_PathSets ==
    proxy # NoProxy =>
        /\ Elems(proxy.paths) =
              {WithoutSlashes(given.paths[i]) : i \in 1..Len(given.paths)}
                  \cup {S_api, S_login, S_logout, S_auth, S_deauth, S_setup,
                        S_callback, S_static, S_debug}
        /\ Elems(proxy.subpaths) =
              {WithoutSlashes(given.subpaths[i]) : i \in 1..Len(given.subpaths)}

\* a policy built from two caller paths, one written with slashes, and a subpath
C2_Witness ==
    /\ proxy # NoProxy
    /\ Len(given.paths) = 2
    /\ given.paths[1] # given.paths[2]
    /\ \E i \in 1..2 : given.paths[i] # WithoutSlashes(given.paths[i])
    /\ Len(given.subpaths) >= 1

----------------------------------------------------------------------------
(* Cookies: the request hook and the response hook on arbitrary requests *)

Origins == {O_b1, O_b10, O_c2}

S_semiSpace == <<";", " ">>
S_sessionAbc == <<"s", "e", "s", "s", "i", "o", "n", "i", "d", "=", "a", "b", "c">>
S_otherCookie == <<"a", "=", "1">>
S_newSession == <<"s", "e", "s", "s", "i", "o", "n", "i", "d", "=", "n", "e", "w", ";", " ", "p", "a", "t", "h", "=", "/">>
S_tokenSecure == <<"t", "o", "k", "e", "n", "=", "1", ";", " ", "S", "e", "c", "u", "r", "e">>
S_tokenLower == <<"t", "o", "k", "e", "n", "=", "1", ";", " ", "s", "e", "c", "u", "r", "e">>

\* name=value pairs written as one Cookie header
RECURSIVE JoinCookies(_)
JoinCookies(cs) ==
    IF cs = <<>> THEN <<>>
    ELSE IF Len(cs) = 1 THEN Head(cs)
    ELSE Head(cs) \o S_semiSpace \o JoinCookies(Tail(cs))

\* the cookies a request may carry: a marker for any origin, a session, another cookie
CookiePool == {BACKEND_COOKIE \o <<"=">> \o o : o \in Origins} \cup {S_sessionAbc, S_otherCookie}

\* lists without repetition
Distinct(l) == \A i, j \in 1..Len(l) : i # j => l[i] # l[j]

\* the Cookie headers of the incoming requests: none at all, or up to MaxCookies cookies
RequestCookies ==
    {Undefined} \cup
    {JoinCookies(l) : l \in {m \in SeqsUpTo(CookiePool, MaxCookies) : m # <<>> /\ Distinct(m)}}

\* the Set-Cookie header of the backend's answers: none, one string, or an array
SetCookiePool == {S_newSession, S_tokenSecure, S_tokenLower, S_otherCookie}
SetCookieHeaders ==
    {NoHeader} \cup {OneValue(c) : c \in SetCookiePool}
        \cup {ManyValues(l) : l \in {m \in SeqsUpTo(SetCookiePool, MaxSetCookies) :
                                        m # <<>> /\ Distinct(m)}}

PlainAnswer(setCookie) == [NoUpstream EXCEPT !.setCookie = setCookie]

CookieOptions ==
    {[backend |-> o, paths |-> <<>>, subpaths |-> <<>>, insecure |-> i,
      generateCert |-> FALSE, certServer |-> FALSE, originRewrites |-> <<>>,
      ssl |-> NoSslOptions] : o \in Origins, i \in BOOLEAN}

ApiUrl == <<"/">> \o S_api

NextCookies ==
    \/ \E options \in CookieOptions :
            CreateBackendProxy(options, BuildEnv, SilentHost, AllOk)
    \/ \E cookie \in RequestCookies : Request("GET", ApiUrl, cookie)
    \/ ProxyReq
    \/ \E setCookie \in SetCookieHeaders : ProxyRes(PlainAnswer(setCookie))
    \/ End

SpecCookies == Init /\ [][NextCookies]_vars

\* the name=value pairs of a Cookie header, and of a Set-Cookie value with its attributes
CookiePairs(header) ==
    IF ~TruthyString(header) THEN <<>>
    ELSE LET parts == Split(header, ";")
         IN SelectSeq([i \in 1..Len(parts) |-> TrimLeft(parts[i])], LAMBDA c : c # <<>>)

\* what stands before and after the first = of a pair
PairName(c) == Head(Split(c, "="))
PairValue(c) == SubSeq(c, Len(PairName(c)) + 2, Len(c))

\* the header carries the marker cookie and it names this backend
NamesBackend(header, backend) ==
    \E i \in 1..Len(CookiePairs(header)) :
        /\ PairName(CookiePairs(header)[i]) = BACKEND_COOKIE
        /\ PairValue(CookiePairs(header)[i]) = backend

\* the header carries a cookie of that name
HasCookie(header, name) ==
    \E i \in 1..Len(CookiePairs(header)) : PairName(CookiePairs(header)[i]) = name

S_sessionid == <<"s", "e", "s", "s", "i", "o", "n", "i", "d">>

\* C3: the request hook removes the sessionid cookie from the forwarded Cookie
\* header when the marker cookie is absent or names another backend than the
\* configured one, and forwards the header unchanged when the marker names the
\* configured backend.
C3_RequestHook ==
    exch.phase # "idle" =>
        IF NamesBackend(routed.cookie, proxy.target)
        THEN exch.fwdCookie = routed.cookie
        ELSE ~HasCookie(exch.fwdCookie, S_sessionid)

\* a header value as the list of its values
AsList(h) ==
    CASE h.kind = "undefined" -> <<>>
      [] h.kind = "string" -> <<h.v>>
      [] h.kind = "array" -> h.v

\* the Set-Cookie value sets a cookie of that name
SetsCookie(value, name) == CookiePairs(value) # <<>> /\ PairName(Head(CookiePairs(value))) = name

\* C4: when the request had no Cookie header, no marker, or a marker for another
\* backend, the response hook appends the marker Set-Cookie after the backend's
\* own values, and an expired sessionid exactly when none of the backend's
\* values sets a sessionid; when the marker names the configured backend the
\* Set-Cookie values are left as they were.
C4_ResponseHook ==
    exch.phase \in {"streaming", "done"} =>
        IF NamesBackend(routed.cookie, proxy.target)
        THEN exch.setCookie = exch.stripped
        ELSE exch.setCookie =
                ManyValues(AsList(exch.stripped) \o <<MarkerSetCookie(proxy.target)>>
                    \o (IF \E i \in 1..Len(AsList(exch.stripped)) :
                               SetsCookie(AsList(exch.stripped)[i], S_sessionid)
                        THEN <<>> ELSE <<EXPIRED_SESSION>>))

\* the value ends with the Secure attribute, in any letter case
TrailingSecureAt(value, i) ==
    /\ i + 5 <= Len(value)
    /\ [j \in 1..6 |-> Fold(value[i + j - 1])] = S_secure
    /\ \A k \in (i + 6)..Len(value) : value[k] \in SpaceChars
EndsWithSecure(value) == \E i \in 1..Len(value) : TrailingSecureAt(value, i)

\* the value without its trailing Secure attribute
WithoutSecure(value) ==
    IF EndsWithSecure(value)
    THEN SubSeq(value, 1, (CHOOSE i \in 1..Len(value) :
                              /\ TrailingSecureAt(value, i)
                              /\ \A j \in 1..(i - 1) : ~TrailingSecureAt(value, j)) - 1)
    ELSE value

\* C6: in insecure mode, after the response hook, no Set-Cookie value ends with a
\* Secure attribute, whether the header came as one value or as a list and
\* whatever the letter case of the attribute; the rest of each value is kept.
C6_NoSecureFlag ==
    (proxy # NoProxy /\ proxy.insecure /\ exch.phase \in {"streaming", "done"}) =>
        /\ \A i \in 1..Len(AsList(exch.setCookie)) : ~EndsWithSecure(AsList(exch.setCookie)[i])
        /\ AsList(exch.stripped) =
              [i \in 1..Len(AsList(exch.upstream.setCookie)) |->
                    WithoutSecure(AsList(exch.upstream.setCookie)[i])]

----------------------------------------------------------------------------
(* A browser that stores the cookies it receives and sends them back, while the
   developer points the proxy at one backend after another *)

S_1970 == <<"1", "9", "7", "0">>

\* the session each backend issues: no two backends issue the same
SessionOf(o) ==
    CASE o = O_b1 -> <<"k", "1">>
      [] o = O_b10 -> <<"k", "2">>
      [] o = O_c2 -> <<"k", "3">>

\* the browser's Cookie header: its cookies in the order it got them
CookieHeader(cookies) ==
    IF cookies = <<>> THEN Undefined
    ELSE JoinCookies([i \in 1..Len(cookies) |-> cookies[i][1] \o <<"=">> \o cookies[i][2]])

\* the browser stores one Set-Cookie value: a cookie that expired in 1970 is
\* dropped, another replaces the cookie of its name or is added last
StoreOne(cookies, value) ==
    LET pair == Head(CookiePairs(value))
        name == PairName(pair)
        others == SelectSeq(cookies, LAMBDA c : c[1] # name)
    IN IF ReTest(S_1970, value) THEN others
       ELSE IF \E i \in 1..Len(cookies) : cookies[i][1] = name
       THEN [i \in 1..Len(cookies) |->
                IF cookies[i][1] = name THEN <<name, PairValue(pair)>> ELSE cookies[i]]
       ELSE Append(cookies, <<name, PairValue(pair)>>)

RECURSIVE StoreAll(_, _)
StoreAll(cookies, values) ==
    IF values = <<>> THEN cookies
    ELSE StoreAll(StoreOne(cookies, Head(values)), Tail(values))

\* the browser sends a request with the cookies it holds
BrowserRequest ==
    /\ Request("GET", ApiUrl, CookieHeader(jar))

\* the browser stores the cookies of the response it received
BrowserStore ==
    /\ exch.phase \in {"streaming", "done"}
    /\ ~exch.stored
    /\ jar' = StoreAll(jar, AsList(exch.setCookie))
    /\ exch' = [exch EXCEPT !.stored = TRUE]
    /\ UNCHANGED <<given, proxy, routed, disk, boot, server, call, res, parked>>

\* a backend answers without any cookie, or logs the user in with its own session
BackendAnswers(o) ==
    {PlainAnswer(NoHeader),
     PlainAnswer(ManyValues(<<S_sessionid \o <<"=">> \o SessionOf(o) \o S_pathRoot>>))}

ClientOptions ==
    {[backend |-> o, paths |-> <<>>, subpaths |-> <<>>, insecure |-> TRUE,
      generateCert |-> FALSE, certServer |-> FALSE, originRewrites |-> <<>>,
      ssl |-> NoSslOptions] : o \in Origins}

NextClient ==
    \/ \E options \in ClientOptions :
            CreateBackendProxy(options, DevServerEnv, SilentHost, AllOk)
    \/ BrowserRequest
    \/ ProxyReq
    \/ /\ exch.phase = "forwarded"
       /\ \E up \in BackendAnswers(proxy.target) : ProxyRes(up)
    \/ BrowserStore
    \/ End

SpecClient == Init /\ [][NextClient]_vars

\* C5: a sessionid the browser got while the proxy pointed at one backend is
\* never forwarded to another backend, for every pair of distinct origins, also
\* when one origin is a prefix of the other.
C5_NoSessionLeak ==
    exch.phase # "idle" =>
        \A i \in 1..Len(CookiePairs(exch.fwdCookie)) :
            PairName(CookiePairs(exch.fwdCookie)[i]) = S_sessionid =>
                PairValue(CookiePairs(exch.fwdCookie)[i]) = SessionOf(proxy.target)

----------------------------------------------------------------------------
(* The policy as a whole: protocol rewrite, with and without a certificate *)

PolicyOptions ==
    {[backend |-> O_b1, paths |-> <<>>, subpaths |-> <<>>, insecure |-> i,
      generateCert |-> g, certServer |-> cs, originRewrites |-> <<>>,
      ssl |-> NoSslOptions] : i \in BOOLEAN, g \in BOOLEAN, cs \in BOOLEAN}

SignFails == [AllOk EXCEPT !.sign = "fails"]

NextPolicy ==
    \/ \E options \in PolicyOptions, env \in {DevServerEnv, BuildEnv}, out \in {AllOk, SignFails} :
            CreateBackendProxy(options, env, SilentHost, out)
    \/ \E cookie \in {Undefined, S_sessionAbc} : Request("GET", ApiUrl, cookie)
    \/ ProxyReq
    \/ \E setCookie \in {NoHeader, ManyValues(<<S_tokenSecure>>)} : ProxyRes(PlainAnswer(setCookie))
    \/ End

SpecPolicy == Init /\ [][NextPolicy]_vars

\* C7: the protocol-rewrite mode of the policy is http exactly when the policy
\* was built with insecure set and https in every other case, with or without a
\* certificate, and stays so whatever requests the policy has processed.
C7_ProtocolRewrite ==
    proxy # NoProxy =>
        /\ proxy.protocolRewrite \in {"http", "https"}
        /\ (proxy.protocolRewrite = "http") <=> given.insecure
        /\ (proxy.protocolRewrite = "https") <=> ~given.insecure

\* an insecure policy that has processed a response
C7_Witness ==
    /\ proxy # NoProxy
    /\ given.insecure
    /\ proxy.protocolRewrite = "http"
    /\ exch.phase = "done"

----------------------------------------------------------------------------
(* The body rewrite *)

S_htmlUtf8 == <<"t", "e", "x", "t", "/", "h", "t", "m", "l", ";", " ", "c", "h", "a", "r", "s", "e", "t", "=", "u", "t", "f", "-", "8">>
S_json == <<"a", "p", "p", "l", "i", "c", "a", "t", "i", "o", "n", "/", "j", "s", "o", "n">>
O_B1_upper == <<"H", "T", "T", "P", ":", "/", "/", "B", "1">>

\* the origins a caller asks to remove, in the order of the array
RewriteLists == {<<O_b1>>, <<O_b1, O_b10>>, <<O_b10, O_b1>>}

BodyOptions ==
    {[backend |-> O_b1, paths |-> <<>>, subpaths |-> <<>>, insecure |-> TRUE,
      generateCert |-> FALSE, certServer |-> FALSE, originRewrites |-> rw,
      ssl |-> NoSslOptions] : rw \in RewriteLists}

\* the texts a backend serves: up to MaxPieces pieces, origins among them
Pieces == {<<"a">>, O_b1, O_B1_upper, O_b10}
Texts == {Concat(ps) : ps \in SeqsUpTo(Pieces, MaxPieces)}

\* the places a body may be cut into chunks: inside an origin and after one
CutPoints == {4, 9, 13}

RECURSIVE CutAt(_, _, _)
\* the bytes b cut after each position of the set cuts, from position from on
CutAt(b, cuts, from) ==
    IF \E k \in cuts : k >= from /\ k < Len(b)
    THEN LET k == CHOOSE c \in cuts : c >= from /\ c < Len(b)
                                      /\ \A d \in cuts : (d >= from /\ d < Len(b)) => c <= d
         IN <<SubSeq(b, from, k)>> \o CutAt(b, cuts, k + 1)
    ELSE IF from <= Len(b) THEN <<SubSeq(b, from, Len(b))>> ELSE <<>>

\* the ways the bytes b arrive in at most MaxChunks chunks
Chunkings(b) ==
    {CutAt(b, cuts, 1) : cuts \in {c \in SUBSET CutPoints : Cardinality(c) < MaxChunks}}

ContentTypes == {Undefined, S_text_html, S_htmlUtf8, S_json}

NextBody ==
    \/ \E options \in BodyOptions :
            CreateBackendProxy(options, DevServerEnv, SilentHost, AllOk)
    \/ Request("GET", ApiUrl, Undefined)
    \/ ProxyReq
    \/ \E ct \in ContentTypes, ce \in {Undefined, S_gzip}, t \in Texts :
         \E ch \in Chunkings(IF ce = S_gzip THEN Gzip(t) ELSE t) :
            ProxyRes([setCookie |-> NoHeader, contentType |-> ct, contentEncoding |-> ce,
                      text |-> t, chunks |-> ch])
    \/ Data
    \/ End

SpecBody == Init /\ [][NextBody]_vars

\* the content type names text/html
NamesHtml(contentType) ==
    /\ contentType # Undefined
    /\ \E i \in 1..Len(contentType) :
          i + 8 <= Len(contentType) /\ SubSeq(contentType, i, i + 8) = S_text_html

\* origin o stands in text at position i, in any letter case
OccursAt(o, text, i) ==
    /\ i + Len(o) - 1 <= Len(text)
    /\ \A j \in 1..Len(o) : Fold(text[i + j - 1]) = Fold(o[j])

\* position i of text lies inside an occurrence of one of the origins
InOccurrence(origins, text, i) ==
    \E k \in 1..Len(origins), j \in 1..i :
        OccursAt(origins[k], text, j) /\ i < j + Len(origins[k])

\* text with every occurrence of every origin removed
WithoutOrigins(origins, text) ==
    LET kept == {i \in 1..Len(text) : ~InOccurrence(origins, text, i)}
        Nth[n \in 1..Cardinality(kept)] ==
            CHOOSE i \in kept : Cardinality({j \in kept : j < i}) = n - 1
    IN [n \in 1..Cardinality(kept) |-> text[Nth[n]]]

\* C8: with originRewrites set, for a response whose content-type contains
\* text/html the body sent to the client is the complete upstream body (the
\* chunks in arrival order, gunzipped when the content-encoding is gzip) with
\* every occurrence of every configured origin removed, in any letter case; the
\* content-encoding header is removed and the body is sent once, after the
\* upstream stream has ended.
C8_BodyRewrite ==
    (proxy # NoProxy /\ proxy.originRewrites # <<>>
        /\ exch.phase \in {"streaming", "done"} /\ NamesHtml(exch.upstream.contentType)) =>
        /\ exch.phase = "streaming" => (exch.emitted = <<>> /\ exch.ends = 0)
        /\ exch.phase = "done" =>
              /\ exch.emitted = WithoutOrigins(proxy.originRewrites, exch.upstream.text)
              /\ exch.ends = 1
              /\ exch.contentEncoding = Undefined

\* C9: with originRewrites set, a response whose content-type is missing or does
\* not contain text/html stays on the streaming path: pipe is not replaced, no
\* data or end handler is registered, the content-encoding header is not
\* touched and the body reaches the client byte for byte.
C9_NonHtmlUntouched ==
    (proxy # NoProxy /\ proxy.originRewrites # <<>>
        /\ exch.phase \in {"streaming", "done"} /\ ~NamesHtml(exch.upstream.contentType)) =>
        /\ exch.pipe = "engine"
        /\ ~exch.handlers
        /\ exch.buf = <<>>
        /\ exch.contentEncoding = exch.upstream.contentEncoding
        /\ exch.emitted \o Concat(exch.pending) = Concat(exch.upstream.chunks)
        /\ exch.phase = "done" =>
              (exch.emitted = Concat(exch.upstream.chunks) /\ exch.ends = 1 /\ ~exch.threw)

\* a gzipped JSON response that holds an origin, delivered in two chunks
C9_Witness ==
    /\ proxy # NoProxy
    /\ proxy.originRewrites # <<>>
    /\ exch.phase = "done"
    /\ exch.upstream.contentType = S_json
    /\ exch.upstream.contentEncoding = S_gzip
    /\ Len(exch.upstream.chunks) = 2
    /\ exch.upstream.text = O_b1
    /\ exch.emitted = Gzip(O_b1)

----------------------------------------------------------------------------
(* The certificate bootstrap on its own *)

H_dev == <<"d", "e", "v">>
IP_lan == <<"1", "0", ".", "0", ".", "0", ".", "5">>

\* createSelfSignedCert(options), called directly
Bootstrap(options, host, out) ==
    /\ LET r == createSelfSignedCert(disk, options, host, out)
       IN /\ disk' = r.fs
          /\ boot' = r
    /\ call' = [by |-> "createSelfSignedCert", options |-> options, host |-> host,
                out |-> out, booted |-> TRUE, served |-> FALSE]
    /\ UNCHANGED <<given, proxy, routed, exch, jar, server, res, parked>>

Files == {"caKey", "caCert", "caExt", "key", "csr", "cert", "ext"}

\* the directory without one of its files
Without(dir, f) ==
    CASE f = "caKey" -> [dir EXCEPT !.caKey = 0]
      [] f = "caCert" -> [dir EXCEPT !.caCert = 0]
      [] f = "caExt" -> [dir EXCEPT !.caExt = FALSE]
      [] f = "key" -> [dir EXCEPT !.key = 0]
      [] f = "csr" -> [dir EXCEPT !.csr = 0]
      [] f = "cert" -> [dir EXCEPT !.cert = NoCert]
      [] f = "ext" -> [dir EXCEPT !.ext = Missing]

\* the user removes a file of the storage root between two calls
DeleteFile(f) ==
    /\ Exists(disk, f)
    /\ disk' = Without(disk, f)
    /\ UNCHANGED <<given, proxy, routed, exch, jar, boot, server, call, res, parked>>

CertOptions == {NoSslOptions}
\* a Linux host named dev with one LAN address and no route to the resolver
CertHosts ==
    {[platform |-> "linux", uname |-> H_dev \o <<"\n">>, lan |-> IP_lan \o <<" ", "\n">>,
      dig |-> Throws]}
Outcomes ==
    [ca : {"ok", "fails", "keyonly"}, trust : {"ok", "fails"},
     req : {"ok", "fails"}, sign : {"ok"}]

NextCert ==
    \/ \E options \in CertOptions, host \in CertHosts, out \in Outcomes :
            Bootstrap(options, host, out)
    \/ \E f \in {"caKey", "caCert", "cert"} : DeleteFile(f)

SpecCert == Init /\ [][NextCert]_vars

\* the commands and writes of the last call
Ran(op) == \E i \in 1..Len(boot.ops) : boot.ops[i] = op

\* C10: a call creates a new CA key and certificate if and only if the CA key
\* file or the CA certificate file is missing when it is made; when both exist
\* neither file is rewritten and no trust-store registration is attempted.
C10_CaRegeneration ==
    boot.status # "none" =>
        LET missing == boot.before.caKey = 0 \/ boot.before.caCert = 0
        IN /\ Ran("openssl CA") <=> missing
           /\ (missing /\ boot.status = "returned") =>
                 /\ boot.fs.caKey \notin {0, boot.before.caKey, boot.before.caCert}
                 /\ boot.fs.caCert = boot.fs.caKey
           /\ ~missing =>
                 /\ boot.fs.caKey = boot.before.caKey
                 /\ boot.fs.caCert = boot.before.caCert
                 /\ ~Ran("security")
                 /\ ~Ran("write caExt")

\* a call that found the CA key but not the CA certificate, and returned
C10_Witness ==
    /\ boot.status = "returned"
    /\ boot.before.caKey # 0
    /\ boot.before.caCert = 0
    /\ Ran("security")
    /\ boot.fs.caCert # 0

----------------------------------------------------------------------------
(* The leaf certificate: reuse and reissue *)

\* the same host after it lost its LAN address
LeafHosts ==
    CertHosts \cup
    {[platform |-> "linux", uname |-> H_dev \o <<"\n">>, lan |-> Throws, dig |-> Throws]}
LeafOutcomes ==
    [ca : {"ok"}, trust : {"ok", "fails"}, req : {"ok", "fails"}, sign : {"ok"}]

NextLeaf ==
    \/ \E options \in CertOptions, host \in LeafHosts, out \in LeafOutcomes :
            Bootstrap(options, host, out)
    \/ \E f \in {"caCert", "key", "ext"} : DeleteFile(f)

SpecLeaf == Init /\ [][NextLeaf]_vars

\* the SAN document of the domains and addresses, as the specification lays it
\* out: two header lines, the DNS lines, then the IP lines, each kind numbered from 1
CanonicalDoc(domains, ips) ==
    [n \in 1..(2 + Len(domains) + Len(ips)) |->
        IF n = 1 THEN "subjectAltName = @alt_names"
        ELSE IF n = 2 THEN "[ alt_names ]"
        ELSE IF n <= 2 + Len(domains) THEN <<"DNS", n - 2, domains[n - 2]>>
        ELSE <<"IP", n - 2 - Len(domains), ips[n - 2 - Len(domains)]>>]

\* the last call found the CA missing and its CA command failed
CaFailed ==
    /\ boot.before.caKey = 0 \/ boot.before.caCert = 0
    /\ call.out.ca # "ok"

\* the last call found the three leaf files, the SAN file holding the document
\* it computed
FoundValidLeaf ==
    /\ boot.before.key # 0
    /\ boot.before.cert # NoCert
    /\ boot.before.ext # Missing
    /\ boot.before.ext = CanonicalDoc(boot.altDomainNames, boot.altIPs)

\* the last call left the leaf key, request, certificate and SAN file as it found them
LeafUntouched ==
    /\ boot.fs.key = boot.before.key
    /\ boot.fs.csr = boot.before.csr
    /\ boot.fs.cert = boot.before.cert
    /\ boot.fs.ext = boot.before.ext
    /\ ~Ran("write ext")
    /\ ~Ran("openssl req")
    /\ ~Ran("openssl sign")

\* the last call issued a new leaf under the document it computed
LeafIssued ==
    /\ boot.fs.key \notin {0, boot.before.key, boot.before.csr, boot.before.cert.key}
    /\ boot.fs.csr = boot.fs.key
    /\ boot.fs.cert.key = boot.fs.key
    /\ boot.fs.cert.san = CanonicalDoc(boot.altDomainNames, boot.altIPs)
    /\ boot.fs.ext = CanonicalDoc(boot.altDomainNames, boot.altIPs)

\* C11: a call that finds the leaf key, the leaf certificate and the SAN file,
\* the file holding exactly the document it computed, writes none of the leaf
\* key, request, certificate and SAN file and runs no issuing command; in every
\* other case it regenerates the leaf, and returns whenever the two issuing
\* commands succeed.
C11_LeafReuse ==
    (boot.status # "none" /\ ~CaFailed) =>
        /\ FoundValidLeaf => (LeafUntouched /\ boot.status = "returned")
        /\ ~FoundValidLeaf =>
              /\ Ran("write ext")
              /\ Ran("openssl req")
              /\ (call.out.req = "ok" /\ call.out.sign = "ok") =>
                    (boot.status = "returned" /\ LeafIssued)

\* a call that reused the leaf it found
C11_Witness ==
    /\ boot.status = "returned"
    /\ FoundValidLeaf
    /\ Ran("log reuse")
    /\ boot.fs.key = boot.before.key

\* C12: when the document a call computes differs from the stored one and the
\* call succeeds, the SAN file holds the canonical document of the computed set
\* and the leaf key, request and certificate are new, the certificate carrying
\* that document.
C12_SanDocument ==
    (boot.status = "returned" /\ boot.before.ext # Missing
        /\ boot.before.ext # CanonicalDoc(boot.altDomainNames, boot.altIPs)) =>
        /\ boot.fs.ext = CanonicalDoc(boot.altDomainNames, boot.altIPs)
        /\ LeafIssued

\* a successful call on a host whose LAN address went away since the leaf was issued
C12_Witness ==
    /\ boot.status = "returned"
    /\ boot.before.ext = CanonicalDoc(<<S_localhost, H_dev>>, <<S_loopback, IP_lan>>)
    /\ boot.before.key # 0
    /\ boot.fs.ext = CanonicalDoc(<<S_localhost, H_dev>>, <<S_loopback>>)
    /\ boot.fs.key # boot.before.key

\* C13: a call that follows a successful call at once, with the same options on
\* a host whose probes answer the same, leaves every file as it is, attempts no
\* trust-store registration and returns.
C13_Idempotence ==
    [][(/\ boot.status = "returned"
        /\ disk = boot.fs
        /\ boot' # boot
        /\ call'.options = call.options
        /\ call'.host = call.host) =>
            (/\ disk' = disk
             /\ boot'.status = "returned"
             /\ \A i \in 1..Len(boot'.ops) :
                    boot'.ops[i] \in {"mkdir", "uname", "lan", "dig", "log reuse"})]_vars

\* a successful call that created the CA and the leaf, repeated: the repeat
\* reused both
C13_Witness ==
    /\ boot.status = "returned"
    /\ boot.before = boot.fs
    /\ boot.fs.caKey # 0
    /\ boot.fs.key # 0
    /\ Ran("log reuse")
    /\ ~Ran("openssl CA")

\* C16: the trust-store registration is attempted only by a call that has just
\* created the CA; when it fails a notice is logged, the CA key and certificate
\* stay, and the call goes on to the leaf: it returns whenever the leaf is
\* reused or its two issuing commands succeed.
C16_TrustStoreFailure ==
    boot.status # "none" =>
        /\ Ran("security") =>
              /\ boot.before.caKey = 0 \/ boot.before.caCert = 0
              /\ Ran("openssl CA")
              /\ call.out.ca = "ok"
              /\ boot.fs.caKey \notin {0, boot.before.caKey}
        /\ (Ran("security") /\ call.out.trust = "fails") =>
              /\ Ran("log notice")
              /\ boot.fs.caKey # 0
              /\ boot.fs.caCert = boot.fs.caKey
              /\ (FoundValidLeaf \/ (call.out.req = "ok" /\ call.out.sign = "ok")) =>
                    /\ boot.status = "returned"
                    /\ IF FoundValidLeaf THEN LeafUntouched ELSE LeafIssued

\* a call whose registration failed and which returned with a new CA and a new leaf
C16_Witness ==
    /\ boot.status = "returned"
    /\ Ran("log notice")
    /\ call.out.trust = "fails"
    /\ boot.before.caCert = 0
    /\ boot.fs.caCert # 0
    /\ Ran("openssl sign")

----------------------------------------------------------------------------
(* The SAN set: the caller's entries and the three probes *)

\* what a caller passes as options.ssl
SanOptions ==
    [additionalDomains : SeqsUpTo({H_dev, S_localhost}, MaxExtra),
     additionalIPs : SeqsUpTo({IP_lan}, MaxExtra)]

\* a Linux host named dev with one LAN address and a public address
GoodHost ==
    [platform |-> "linux", uname |-> H_dev \o <<"\n">>, lan |-> IP_lan \o <<" ", "\n">>,
     dig |-> IP_lan \o <<"\n">>]

\* that host with one probe failing or printing nothing, with every probe
\* failing, and named localhost; and a Mac that prints one address per line
SanHosts ==
    {GoodHost, SilentHost,
     [GoodHost EXCEPT !.uname = Throws], [GoodHost EXCEPT !.uname = <<"\n">>],
     [GoodHost EXCEPT !.lan = Throws], [GoodHost EXCEPT !.lan = <<"\n">>],
     [GoodHost EXCEPT !.dig = Throws], [GoodHost EXCEPT !.dig = <<>>],
     [GoodHost EXCEPT !.uname = S_localhost \o <<"\n">>],
     [platform |-> "darwin", uname |-> H_dev \o <<"\n">>,
      lan |-> S_loopback \o <<"\n">> \o IP_lan \o <<"\n">>, dig |-> Throws]}

NextSan ==
    \/ \E options \in SanOptions, host \in SanHosts : Bootstrap(options, host, AllOk)
    \/ DeleteFile("ext")

SpecSan == Init /\ [][NextSan]_vars

\* no element of the list occurs twice
NoDuplicates(list) == \A i, j \in 1..Len(list) : list[i] = list[j] => i = j

\* C14: the SAN set of every call starts with localhost among the domains and
\* with 127.0.0.1 among the addresses, and holds no domain and no address twice,
\* whatever the caller adds and whatever the probes discover.
C14_SanSet ==
    boot.status # "none" =>
        /\ boot.altDomainNames # <<>> /\ boot.altDomainNames[1] = S_localhost
        /\ boot.altIPs # <<>> /\ boot.altIPs[1] = S_loopback
        /\ NoDuplicates(boot.altDomainNames)
        /\ NoDuplicates(boot.altIPs)

\* what a probe contributes: nothing when it failed or printed only white
\* space, the words it printed otherwise
Words(output, sep) ==
    IF output = Throws THEN {}
    ELSE {w \in Elems(Split(Trim(output), sep)) : w # <<>>}

\* C15: a call completes and obtains a leaf certificate whichever probes fail or
\* print nothing; the SAN set holds the seeds, the caller's entries and what the
\* other probes printed, and nothing else: a silent probe adds no entry, and in
\* particular no empty one.
C15_ProbeIndependence ==
    boot.status # "none" =>
        /\ boot.status = "returned"
        /\ boot.fs.key # 0 /\ boot.fs.cert.key # 0
        /\ Elems(boot.altDomainNames) =
              {S_localhost} \cup Elems(call.options.additionalDomains)
                  \cup Words(call.host.uname, "\n")
        /\ Elems(boot.altIPs) =
              {S_loopback} \cup Elems(call.options.additionalIPs)
                  \cup Words(call.host.lan, IF call.host.platform = "darwin" THEN "\n" ELSE " ")
                  \cup Words(call.host.dig, "\n")

----------------------------------------------------------------------------
(* createBackendProxy when a command of the bootstrap fails *)

\* a secure policy with the certificate forced and the distribution server asked for
IssuanceOptions ==
    {[backend |-> O_b1, paths |-> <<>>, subpaths |-> <<>>, insecure |-> FALSE,
      generateCert |-> TRUE, certServer |-> TRUE, originRewrites |-> <<>>,
      ssl |-> NoSslOptions]}
IssuanceOutcomes ==
    [ca : {"ok", "fails"}, trust : {"ok"}, req : {"ok", "fails"}, sign : {"ok", "fails"}]

NextIssuance ==
    \/ \E options \in IssuanceOptions, out \in IssuanceOutcomes :
            CreateBackendProxy(options, BuildEnv, SilentHost, out)
    \/ \E f \in {"caCert", "key"} : DeleteFile(f)

SpecIssuance == Init /\ [][NextIssuance]_vars

\* how many times the last call ran a command
Count(op) == Cardinality({i \in 1..Len(boot.ops) : boot.ops[i] = op})

\* the last call ran the request command: the CA was there or was made, and
\* the leaf it found was not valid
RanRequest == ~CaFailed /\ ~FoundValidLeaf

\* C17: when the CA command, the request command or the signing command of a
\* call fails, the call throws at that command, having run it once, and
\* createBackendProxy returns no policy (and starts no server).
C17_IssuanceFailure ==
    (call.by = "createBackendProxy" /\ call.booted) =>
        /\ CaFailed =>
              /\ boot.status = "error"
              /\ boot.ops[Len(boot.ops)] = "openssl CA"
        /\ (RanRequest /\ call.out.req # "ok") =>
              /\ boot.status = "error"
              /\ boot.ops[Len(boot.ops)] = "openssl req"
        /\ (RanRequest /\ call.out.req = "ok" /\ call.out.sign # "ok") =>
              /\ boot.status = "error"
              /\ boot.ops[Len(boot.ops)] = "openssl sign"
        /\ Count("openssl CA") <= 1 /\ Count("openssl req") <= 1 /\ Count("openssl sign") <= 1
        /\ boot.status = "error" => (proxy = NoProxy /\ ~call.served)

\* a call whose signing command failed after the CA was made
C17_Witness ==
    /\ call.by = "createBackendProxy"
    /\ call.out.ca = "ok" /\ call.out.req = "ok" /\ call.out.sign = "fails"
    /\ Ran("openssl CA")
    /\ Ran("openssl sign")
    /\ boot.status = "error"
    /\ proxy = NoProxy

----------------------------------------------------------------------------
(* When createBackendProxy asks for a certificate *)

Envs == [GENERATE_CERT : BOOLEAN, CERT_SERVER : BOOLEAN, devServer : BOOLEAN]

NextGating ==
    \/ \E options \in PolicyOptions, env \in Envs, out \in {AllOk, SignFails} :
            CreateBackendProxy(options, env, SilentHost, out)
    \/ Request("GET", ApiUrl, Undefined)
    \/ ProxyReq

SpecGating == Init /\ [][NextGating]_vars

\* the last createBackendProxy call was entitled to a certificate
Entitled ==
    /\ ~given.insecure
    /\ given.generateCert \/ call.env.GENERATE_CERT \/ call.env.devServer

\* C18: createBackendProxy runs the certificate pipeline, and attaches key and
\* certificate to the policy, only when insecure is not set and generateCert,
\* GENERATE_CERT=true or webpack-dev-server asks for it; otherwise the policy
\* has no ssl field and no step creates a file; the distribution server starts
\* only in a call that obtained a certificate and has certServer or
\* CERT_SERVER=true.
C18_CertGating ==
    /\ [](call.by = "createBackendProxy" =>
            /\ call.booted <=> Entitled
            /\ (proxy # NoProxy /\ proxy.ssl # NoSsl) =>
                  (Entitled /\ boot.status = "returned"
                     /\ proxy.ssl = [key |-> disk.key, cert |-> disk.cert])
            /\ ~Entitled => (proxy # NoProxy /\ proxy.ssl = NoSsl /\ ~call.served)
            /\ call.served =>
                  (Entitled /\ boot.status = "returned"
                     /\ (given.certServer \/ call.env.CERT_SERVER)))
    /\ [][/\ (call'.by = "createBackendProxy" /\ ~Entitled') =>
                (disk' = disk /\ boot' = boot /\ server' = server)
          /\ server' # server =>
                (/\ Entitled' /\ boot'.status = "returned"
                 /\ given'.certServer \/ call'.env.CERT_SERVER
                 /\ server'.listening /\ server'.caCert = disk'.caCert)]_vars

\* a plain build of a secure policy that left the directory empty, and a
\* dev-server run that started the distribution server
C18_Witness ==
    /\ call.by = "createBackendProxy"
    /\ ~given.insecure /\ ~given.generateCert
    /\ ~call.env.devServer /\ ~call.env.GENERATE_CERT
    /\ proxy # NoProxy /\ proxy.ssl = NoSsl
    /\ server.listening
    /\ routed # NoRequest

----------------------------------------------------------------------------
(* The distribution server (certServer, the ./server module) *)

S_root == <<"/">>
S_caCrtUrl == <<"/", "s", "y", "m", "m", "e", "t", "r", "i", "c", "_", "c", "a", ".", "c", "r", "t">>
S_otherUrl == <<"/", "f", "a", "v", "i", "c", "o", "n", ".", "i", "c", "o">>

\* lines 262-264: the three bodies: server.html, the CA certificate read when
\* the server started, and the not-found text
IndexBody == [kind |-> "server.html"]
CertBody(caCert) == [kind |-> "certificate", id |-> caCert]
NotFoundBody == [kind |-> "404 - Not Found"]

\* lines 266-285: the request listener. The responses it writes, in order, and
\* whether it threw: after a 200 response was written and ended the listener
\* goes on to writeHead(404), which throws because the headers were sent
Listener(caCert, url) ==
    LET first ==
            IF url = S_root
            THEN <<[status |-> 200, type |-> "text/html", body |-> IndexBody]>>
            ELSE IF url = S_caCrtUrl
            THEN <<[status |-> 200, type |-> "application/x-x509-ca-cert",
                    body |-> CertBody(caCert)]>>
            ELSE <<>>
    IN IF first # <<>>
       THEN [url |-> url, written |-> first, threw |-> TRUE]
       ELSE [url |-> url,
             written |-> <<[status |-> 404, type |-> "text/plain", body |-> NotFoundBody]>>,
             threw |-> FALSE]

\* a client asks the distribution server for url; an exception thrown by the
\* listener is uncaught and ends the process, the server with it
ServerRequest(url) ==
    /\ server.listening
    /\ res' = Listener(server.caCert, url)
    /\ server' = IF res'.threw THEN [server EXCEPT !.listening = FALSE] ELSE server
    /\ UNCHANGED <<given, proxy, routed, exch, jar, disk, boot, call, parked>>

ServerUrls == {S_root, S_caCrtUrl, S_otherUrl, S_root \o <<"?", "q">>}

NextServer ==
    \/ \E options \in PolicyOptions, env \in {DevServerEnv, BuildEnv} :
            CreateBackendProxy(options, env, SilentHost, AllOk)
    \/ DeleteFile("caCert")
    \/ \E url \in ServerUrls : ServerRequest(url)

SpecServer == Init /\ [][NextServer]_vars

\* C19: the distribution server answers `/` with one 200 text/html response
\* carrying the instruction page, `/symmetric_ca.crt` with one 200
\* application/x-x509-ca-cert response carrying the CA certificate, and every
\* other URL with one 404 text/plain response; a 404 is written for those other
\* URLs only, and the listener never throws.
C19_ServerRoutes ==
    res.url # Undefined =>
        /\ ~res.threw
        /\ Len(res.written) = 1
        /\ res.url = S_root =>
              res.written[1] = [status |-> 200, type |-> "text/html", body |-> IndexBody]
        /\ res.url = S_caCrtUrl =>
              /\ res.written[1].status = 200
              /\ res.written[1].type = "application/x-x509-ca-cert"
              /\ res.written[1].body.kind = "certificate"
        /\ res.url \notin {S_root, S_caCrtUrl} =>
              res.written[1] = [status |-> 404, type |-> "text/plain", body |-> NotFoundBody]
        /\ (\E i \in 1..Len(res.written) : res.written[i].status = 404) =>
              res.url \notin {S_root, S_caCrtUrl}

----------------------------------------------------------------------------
(* The body rewrite under the content encodings a backend may declare *)

S_deflate == <<"d", "e", "f", "l", "a", "t", "e">>

\* what the upstream sends for the text s under content-encoding deflate: bytes
\* that are not the text and no gzip stream either
Deflate(s) == <<"<789c>">> \o Reverse(s)

EncodingOptions ==
    {[backend |-> O_b1, paths |-> <<>>, subpaths |-> <<>>, insecure |-> TRUE,
      generateCert |-> FALSE, certServer |-> FALSE, originRewrites |-> <<O_b1>>,
      ssl |-> NoSslOptions]}

\* HTML answers: not encoded, gzipped, declared gzip but no gzip stream (the
\* decoded text is then Undefined), and deflated
EncodedAnswers ==
    UNION {
        {[setCookie |-> NoHeader, contentType |-> S_text_html, contentEncoding |-> Undefined,
          text |-> t, chunks |-> ch] : ch \in Chunkings(t)}
        \cup
        {[setCookie |-> NoHeader, contentType |-> S_text_html, contentEncoding |-> S_gzip,
          text |-> t, chunks |-> ch] : ch \in Chunkings(Gzip(t))}
        \cup
        {[setCookie |-> NoHeader, contentType |-> S_text_html, contentEncoding |-> S_gzip,
          text |-> Undefined, chunks |-> ch] : ch \in Chunkings(t)}
        \cup
        {[setCookie |-> NoHeader, contentType |-> S_text_html, contentEncoding |-> S_deflate,
          text |-> t, chunks |-> ch] : ch \in Chunkings(Deflate(t))}
        : t \in Texts \ {<<>>}}

NextEncoding ==
    \/ \E options \in EncodingOptions :
            CreateBackendProxy(options, DevServerEnv, SilentHost, AllOk)
    \/ Request("GET", ApiUrl, Undefined)
    \/ ProxyReq
    \/ \E up \in EncodedAnswers : ProxyRes(up)
    \/ Data
    \/ End

SpecEncoding == Init /\ [][NextEncoding]_vars

\* C20: for an HTML response under rewrite, whatever content-encoding the
\* upstream declared and whether or not its body can be decoded, once the
\* response is over either the client got the decoded body with the origins
\* removed, or it got no body byte and the handler threw.
C20_NoCorruptBytes ==
    (proxy # NoProxy /\ proxy.originRewrites # <<>> /\ exch.phase = "done"
        /\ NamesHtml(exch.upstream.contentType)) =>
        \/ /\ exch.upstream.text # Undefined
           /\ exch.emitted = WithoutOrigins(proxy.originRewrites, exch.upstream.text)
        \/ /\ exch.emitted = <<>>
           /\ exch.threw

----------------------------------------------------------------------------
(* Several responses in flight through one policy *)

\* a faulty variant of Closure, which the property must reject: one buffer for
\* all responses
ClosureSharedBody(own, current) == [own EXCEPT !.buf = current.buf]

\* lines 150-163: body, the replaced pipe and the two handlers are created by
\* the call of proxy.onProxyRes for one response and are captured by that
\* response's handlers only: the state a connection resumes with is its own,
\* whatever the connection served in between (current) holds. The expression
\* re is shared, but replace starts a global expression at lastIndex 0
Closure(own, current) == own

\* the event loop turns to the k-th other connection: the next event belongs
\* to it
Switch(k) ==
    /\ proxy # NoProxy
    /\ routed # NoRequest \/ parked[k].routed # NoRequest
    /\ routed' = parked[k].routed
    /\ exch' = Closure(parked[k].exch, exch)
    /\ parked' = [parked EXCEPT ![k] = [routed |-> routed, exch |-> exch]]
    /\ UNCHANGED <<given, proxy, jar, disk, boot, server, call, res>>

\* HTML answers that hold the origin, one plain and one gzipped, each arriving
\* whole or cut inside the origin
ConcurrentAnswers ==
    {[setCookie |-> NoHeader, contentType |-> S_text_html, contentEncoding |-> Undefined,
      text |-> <<"a">> \o O_b1, chunks |-> ch] :
        ch \in {<<(<<"a">> \o O_b1)>>, CutAt(<<"a">> \o O_b1, {4}, 1)}}
    \cup
    {[setCookie |-> NoHeader, contentType |-> S_text_html, contentEncoding |-> S_gzip,
      text |-> O_B1_upper \o <<"a">>, chunks |-> ch] :
        ch \in {<<Gzip(O_B1_upper \o <<"a">>)>>, CutAt(Gzip(O_B1_upper \o <<"a">>), {4}, 1)}}

NextConcurrent ==
    \/ /\ proxy = NoProxy
       /\ \E options \in EncodingOptions :
            CreateBackendProxy(options, DevServerEnv, SilentHost, AllOk)
    \/ \E cookie \in {Undefined, S_sessionAbc} : Request("GET", ApiUrl, cookie)
    \/ ProxyReq
    \/ \E up \in ConcurrentAnswers : ProxyRes(up)
    \/ Data
    \/ End
    \/ \E k \in 1..(MaxFlights - 1) : Switch(k)

SpecConcurrent == Init /\ [][NextConcurrent]_vars

\* the connections in flight: the one being served and the others
Flights == {[routed |-> routed, exch |-> exch]} \cup {parked[k] : k \in 1..(MaxFlights - 1)}

\* what a connection has got so far is made of its own request and its own
\* response only
OwnResponseOnly(f) ==
    /\ f.exch.phase \in {"forwarded", "streaming", "done"} =>
          f.exch.fwdCookie = (IF f.routed.cookie = Undefined THEN Undefined ELSE <<>>)
    /\ f.exch.phase = "streaming" =>
          /\ f.exch.emitted = <<>>
          /\ f.exch.buf \o Concat(f.exch.pending) = Concat(f.exch.upstream.chunks)
    /\ f.exch.phase = "done" =>
          /\ f.exch.emitted = WithoutOrigins(proxy.originRewrites, f.exch.upstream.text)
          /\ f.exch.ends = 1
          /\ ~f.exch.threw

\* C21: however the data and end events of several HTML responses in flight
\* through one policy interleave, each client gets exactly the rewrite of its
\* own response (its buffer holds its own chunks only), and no step of a hook
\* changes the policy or the state of another connection.
C21_ResponseIsolation ==
    /\ [](proxy # NoProxy => \A f \in Flights : OwnResponseOnly(f))
    /\ [][proxy # NoProxy =>
            /\ proxy' = proxy
            /\ \/ parked' = parked
               \/ \E k \in 1..(MaxFlights - 1) :
                    /\ parked' = [parked EXCEPT ![k] = [routed |-> routed, exch |-> exch]]
                    /\ exch' = parked[k].exch
                    /\ routed' = parked[k].routed]_vars

\* two responses over, both rewritten, the chunks of the one having arrived
\* between the chunks of the other
C21_Witness ==
    /\ exch.phase = "done"
    /\ Len(exch.upstream.chunks) = 2
    /\ exch.emitted = <<"a">>
    /\ \E k \in 1..(MaxFlights - 1) :
          /\ parked[k].exch.phase = "done"
          /\ Len(parked[k].exch.upstream.chunks) = 2
          /\ parked[k].exch.upstream.text # exch.upstream.text
          /\ parked[k].exch.emitted = <<"a">>

----------------------------------------------------------------------------
(* The order of the response hooks *)

\* the four combinations of insecure and originRewrites
HookOptions ==
    {[backend |-> O_b1, paths |-> <<>>, subpaths |-> <<>>, insecure |-> i,
      generateCert |-> FALSE, certServer |-> FALSE, originRewrites |-> rw,
      ssl |-> NoSslOptions] : i \in BOOLEAN, rw \in {<<>>, <<O_b1>>}}

\* answers with and without a Secure cookie, HTML and not
HookAnswers ==
    {[setCookie |-> sc, contentType |-> ct, contentEncoding |-> Undefined,
      text |-> O_b1, chunks |-> <<O_b1>>] :
        sc \in {NoHeader, ManyValues(<<S_tokenLower>>)}, ct \in {S_text_html, S_json}}

NextHooks ==
    \/ \E options \in HookOptions :
            CreateBackendProxy(options, DevServerEnv, SilentHost, AllOk)
    \/ \E cookie \in {Undefined, S_sessionAbc} : Request("GET", ApiUrl, cookie)
    \/ ProxyReq
    \/ \E up \in HookAnswers : ProxyRes(up)
    \/ Data
    \/ End

SpecHooks == Init /\ [][NextHooks]_vars

\* the places of a stage in the order the hooks of the last response ran
Places(stage) == {i \in 1..Len(exch.stages) : exch.stages[i] = stage}

\* how many times the marker of the backend stands in the Set-Cookie header sent
\* to the client
Markers ==
    Cardinality({i \in 1..Len(AsList(exch.setCookie)) :
                    AsList(exch.setCookie)[i] = MarkerSetCookie(proxy.target)})

\* C22: whichever of insecure and originRewrites are set, every proxied
\* response goes through the session step exactly once; the Secure strip runs
\* exactly when insecure is set, and before it; the body-rewrite setup runs
\* exactly when originRewrites is set, and after it; each stage has its effect
\* whether or not the other optional stage is enabled.
C22_HookOrder ==
    (proxy # NoProxy /\ exch.phase \in {"streaming", "done"}) =>
        /\ Cardinality(Places("session")) = 1
        /\ Markers = 1
        /\ Places("strip") # {} <=> given.insecure
        /\ Places("rewrite") # {} <=> given.originRewrites # <<>>
        /\ \A i \in Places("strip"), j \in Places("session") : i < j
        /\ \A i \in Places("session"), j \in Places("rewrite") : i < j
        /\ given.insecure =>
              \A i \in 1..Len(AsList(exch.setCookie)) :
                    ~EndsWithSecure(AsList(exch.setCookie)[i])
        /\ ~given.insecure => exch.stripped = exch.upstream.setCookie
        /\ exch.handlers <=>
              (given.originRewrites # <<>> /\ NamesHtml(exch.upstream.contentType))

\* an insecure policy with originRewrites that stripped a Secure cookie, added
\* the marker and set up the rewrite of an HTML answer
C22_Witness ==
    /\ proxy # NoProxy
    /\ given.insecure
    /\ given.originRewrites # <<>>
    /\ exch.phase = "done"
    /\ exch.upstream.setCookie = ManyValues(<<S_tokenLower>>)
    /\ exch.stages = <<"strip", "session", "rewrite">>
    /\ exch.handlers
    /\ exch.emitted = <<>>

----------------------------------------------------------------------------
(* The leaf certificate against the CA and against its SAN document *)

\* C23: after every call that returns, the leaf certificate on disk was signed
\* by the CA whose key and certificate are on disk, whatever calls and
\* deletions came before.
C23_LeafSignedByCa ==
    boot.status = "returned" =>
        /\ boot.fs.caKey # 0
        /\ boot.fs.caCert = boot.fs.caKey
        /\ boot.fs.cert # NoCert
        /\ boot.fs.cert.ca = boot.fs.caKey

\* C24: whenever a call starts with the leaf key, the leaf certificate and the
\* SAN file in place, the certificate was issued for that key with the SAN
\* document the file holds, also after an earlier call failed in the middle of
\* issuing the leaf.
C24_LeafMatchesSan ==
    (boot.status # "none"
        /\ boot.before.key # 0 /\ boot.before.cert # NoCert /\ boot.before.ext # Missing) =>
        /\ boot.before.cert.key = boot.before.key
        /\ boot.before.cert.san = boot.before.ext

----------------------------------------------------------------------------
(* The headers that describe a rewritten body *)

\* HTML answers with and without the origin, plain and gzipped, that declare
\* the length of what they send or are chunked
LengthAnswers ==
    UNION {
        {[setCookie |-> NoHeader, contentType |-> S_text_html, contentEncoding |-> Undefined,
          text |-> t, chunks |-> <<t>>, contentLength |-> cl] :
            cl \in {NoHeader, OneValue(Len(t))}}
        \cup
        {[setCookie |-> NoHeader, contentType |-> S_text_html, contentEncoding |-> S_gzip,
          text |-> t, chunks |-> <<Gzip(t)>>, contentLength |-> cl] :
            cl \in {NoHeader, OneValue(Len(Gzip(t)))}}
        : t \in Texts \ {<<>>}}

NextLength ==
    \/ \E options \in EncodingOptions :
            CreateBackendProxy(options, DevServerEnv, SilentHost, AllOk)
    \/ Request("GET", ApiUrl, Undefined)
    \/ ProxyReq
    \/ \E up \in LengthAnswers : ProxyRes(up)
    \/ Data
    \/ End

SpecLength == Init /\ [][NextLength]_vars

\* C25: once a response has been rewritten, no header of the client response
\* misdescribes the body sent: there is no content-encoding header, and a
\* Content-Length header, if the upstream sent one, states the length of the
\* rewritten body.
C25_HeadersMatchBody ==
    (proxy # NoProxy /\ exch.handlers /\ exch.phase = "done" /\ ~exch.threw) =>
        /\ exch.contentEncoding = Undefined
        /\ exch.contentLength.kind = "string" => exch.contentLength.v = Len(exch.emitted)

====
